---- MODULE Spec2Model ----
(***************************************************************************)
(* Model of s3-account-finder: the run of main (src/s3accountfinder.go),   *)
(* the IAM role functions of package internal (src/unnamed/part_003) and   *)
(* the retry / rate-limit wrapper (src/internal/roles.go, lines 131-268).  *)
(*                                                                         *)
(* Three specifications share the variables:                               *)
(*   Spec       one run of main against an IAM/STS/S3 environment          *)
(*   SpecRole   the role functions called in any order on one role name    *)
(*   SpecRetry  ListObjectsV2WithRetry called repeatedly through one       *)
(*              RateLimitedS3Client under a cancellable context            *)
(* Remote services answer nondeterministically: every call may fail with   *)
(* a service fault besides the errors its semantics prescribe.             *)
(***************************************************************************)
EXTENDS Integers, Sequences, FiniteSets, TLC

VARIABLES
    pc,           \* position of main
    exitCode,     \* -1 while running, else the process exit status
    path,         \* -path flag, a sequence of characters
    deleteFlag,   \* -delete-existing-role flag
    role,         \* the IAM role stored under roleName in the account
    role0,        \* that role as it was before the run
    userArn,      \* ARN returned by GetCallerIdentity
    found,        \* main took the "role already exists" branch
    created,      \* CreateS3Role succeeded in this run
    deferred,     \* the cleanup closure has been registered with defer
    cleanups,     \* DeleteS3Role calls issued after the creation
    output,       \* what main printed: the listing, the cleanup warning
    calls,        \* log of the remote calls issued, in order
    rpc,          \* position inside WithRetry
    attempt,      \* WithRetry: loop counter
    lastErr,      \* WithRetry: lastErr
    errs,         \* results of the invocations of fn in this WithRetry call
    sleeps,       \* backoff delays slept in this WithRetry call (ms)
    result,       \* error returned by WithRetry
    resp,         \* ListObjectsV2WithRetry: len(result.Contents), -1 for nil
    ctxDone,      \* the context passed to WithRetry is cancelled
    invocations,  \* ListObjectsV2WithRetry calls started
    lastCallZero, \* RateLimitedS3Client.lastCall.IsZero()
    spacing,      \* rate limiting done before the latest S3 call
    hist,         \* SpecRole: the role-function calls made, with results
    args,         \* SpecPure: the arguments of contains and isRetryable
    rets          \* SpecPure: the values they returned

vars == <<pc, exitCode, path, deleteFlag, role, role0, userArn, found, created,
          deferred, cleanups, output, calls, rpc, attempt, lastErr, errs,
          sleeps, result, resp, ctxDone, invocations, lastCallZero, spacing, hist, args, rets>>

mainVars  == <<pc, exitCode, path, deleteFlag, role, role0, userArn, found,
               created, deferred, cleanups, output>>
retryVars == <<rpc, attempt, lastErr, errs, sleeps, result, resp>>
rateVars  == <<lastCallZero, spacing>>

----------------------------------------------------------------------------
(* Bounds of the model *)

MaxCalls == 3          \* SpecRole: role-function calls per behaviour
MaxInvocations == 2    \* SpecRetry: ListObjectsV2WithRetry calls per behaviour

----------------------------------------------------------------------------
(* Program constants *)

maxRetries == 3
baseDelay == 1000
maxDelay == 30000
rateLimitDelay == 100

EnumPolicyName == "S3EnumerationPolicy"
CallerArn == "arn:aws:iam::111111111111:user/operator"

(* the ARNs GetCallerIdentity can return, one per set of credentials *)
CallerArns == {CallerArn, "arn:aws:sts::111111111111:assumed-role/ci/run"}

----------------------------------------------------------------------------
(* Strings are sequences of characters *)

tokRequestTimeout == <<"R","e","q","u","e","s","t","T","i","m","e","o","u","t">>
tokServiceUnavailable == <<"S","e","r","v","i","c","e","U","n","a","v","a","i","l","a","b","l","e">>
tokThrottling == <<"T","h","r","o","t","t","l","i","n","g">>
tokTooManyRequests == <<"T","o","o","M","a","n","y","R","e","q","u","e","s","t","s">>
tokRequestLimitExceeded == <<"R","e","q","u","e","s","t","L","i","m","i","t","E","x","c","e","e","d","e","d">>
tokSlowDown == <<"S","l","o","w","D","o","w","n">>
tokRequestTimeTooSkewed == <<"R","e","q","u","e","s","t","T","i","m","e","T","o","o","S","k","e","w","e","d">>
tokProvisionedThroughputExceededException == <<"P","r","o","v","i","s","i","o","n","e","d","T","h","r","o","u","g","h","p","u","t","E","x","c","e","e","d","e","d","E","x","c","e","p","t","i","o","n">>

retryableErrors == <<tokRequestTimeout, tokServiceUnavailable, tokThrottling,
                     tokTooManyRequests, tokRequestLimitExceeded, tokSlowDown,
                     tokRequestTimeTooSkewed,
                     tokProvisionedThroughputExceededException>>

apiErrorPrefix == <<"a","p","i"," ","e","r","r","o","r"," ">>

(* err.Error() of the errors the S3 call can return *)
ErrorText(e) ==
    CASE e = "SlowDown"           -> apiErrorPrefix \o tokSlowDown
      [] e = "Throttling"         -> apiErrorPrefix \o tokThrottling \o <<":"," ","R","a","t","e"," ","e","x","c","e","e","d","e","d">>
      [] e = "AccessDenied"       -> apiErrorPrefix \o <<"A","c","c","e","s","s","D","e","n","i","e","d">>
      [] e = "ctxCanceled"        -> <<"c","o","n","t","e","x","t"," ","c","a","n","c","e","l","e","d">>
      [] e = "RequestTimeout"     -> apiErrorPrefix \o tokRequestTimeout
      [] e = "ServiceUnavailable" -> tokServiceUnavailable \o <<":"," ","t","r","y"," ","a","g","a","i","n">>
      [] e = "TooManyRequests"    -> apiErrorPrefix \o tokTooManyRequests
      [] e = "RequestLimitExceeded" -> apiErrorPrefix \o tokRequestLimitExceeded
      [] e = "RequestTimeTooSkewed" -> apiErrorPrefix \o tokRequestTimeTooSkewed
      [] e = "ProvisionedThroughputExceededException"
                                  -> apiErrorPrefix \o tokProvisionedThroughputExceededException
      [] e = "NoSuchBucket"       -> apiErrorPrefix \o <<"N","o","S","u","c","h","B","u","c","k","e","t">>
      [] e = "Throttled"          -> apiErrorPrefix \o <<"T","h","r","o","t","t","l","e","d">>
      [] e = "slowdown"           -> apiErrorPrefix \o <<"s","l","o","w","d","o","w","n">>
      [] OTHER                    -> <<>>

(* the errors the ListObjectsV2 call returns in the model *)
S3Errors == {"SlowDown", "Throttling", "AccessDenied"}

----------------------------------------------------------------------------
(* Errors.  An error value is a record: the text added by fmt.Errorf       *)
(* ("" when the error is returned as it is) and the wrapped cause.         *)

NilErr == [msg |-> "", cause |-> "nil"]
Plain(e) == [msg |-> "", cause |-> e]
Wrap(m, e) == [msg |-> m, cause |-> e]
IsNil(err) == err.cause = "nil"

(* the arguments and the results of the two functions before any call *)
NoArgs == [s |-> <<>>, substr |-> <<>>, err |-> "nil"]
NoRets == [cdone |-> FALSE, contains |-> FALSE, rdone |-> FALSE, retryable |-> FALSE]

contains_PrefixOnly(s, substr) ==
    Len(s) >= Len(substr) /\ SubSeq(s, 1, Len(substr)) = substr

RECURSIVE contains(_, _)
contains(s, substr) ==
    \/ Len(s) >= Len(substr) /\ SubSeq(s, 1, Len(substr)) = substr
    \/ Len(s) > Len(substr) /\ contains(Tail(s), substr)

isRetryable(e) ==
    IF e = "nil" THEN FALSE
    ELSE \E i \in 1..Len(retryableErrors) : contains(ErrorText(e), retryableErrors[i])

Min(a, b) == IF a <= b THEN a ELSE b

RECURSIVE Pow2(_)
Pow2(n) == IF n = 0 THEN 1 ELSE 2 * Pow2(n - 1)

BackoffDelay_NextPower(a) == Min(baseDelay * Pow2(a), maxDelay)

(* delay computed by WithRetry before attempt number a (a > 0) *)
BackoffDelay(a) == Min(baseDelay * Pow2(a - 1), maxDelay)

----------------------------------------------------------------------------
(* Policy documents *)

TrustPolicy_AnyPrincipal(trustedUserArn) ==
    [Version |-> "2012-10-17",
     Statement |-> << [Sid |-> "", Effect |-> "Allow",
                       Action |-> <<"sts:AssumeRole">>,
                       Principal |-> <<"AWS", "*">>,
                       Resource |-> <<>>, Condition |-> <<>>] >>]

(* the trust policy CreateS3Role marshals *)
TrustPolicy(trustedUserArn) ==
    [Version |-> "2012-10-17",
     Statement |-> << [Sid |-> "", Effect |-> "Allow",
                       Action |-> <<"sts:AssumeRole">>,
                       Principal |-> <<"AWS", trustedUserArn>>,
                       Resource |-> <<>>, Condition |-> <<>>] >>]

(* the inline policy AttachInlinePolicy marshals; Resource is the result   *)
(* of Sprintf("arn:aws:s3:::%s/*", bucketName)                             *)
InlinePolicy(bucketName, accountIds) ==
    [Version |-> "2012-10-17",
     Statement |-> << [Sid |-> "TestS3Access", Effect |-> "Allow",
                       Action |-> <<"s3:ListBucket", "s3:GetObject">>,
                       Principal |-> <<>>,
                       Resource |-> <<"arn:aws:s3:::", bucketName, "/*">>,
                       Condition |-> <<"StringEquals", "s3:ExistingBucketPolicy", accountIds>>] >>]

AttachPolicyName_PerBucket(bucketName) ==
    IF bucketName = "b1" THEN EnumPolicyName ELSE "S3EnumerationPolicy-b2"

(* PolicyName of the PutRolePolicyInput built by AttachInlinePolicy *)
AttachPolicyName(bucketName) == EnumPolicyName

(* an inline policy put on a role by somebody else before the run *)
ForeignPolicy ==
    [Version |-> "2012-10-17",
     Statement |-> << [Sid |-> "Foreign", Effect |-> "Allow",
                       Action |-> <<"s3:GetObject">>, Principal |-> <<>>,
                       Resource |-> <<"*">>, Condition |-> <<>>] >>]

ForeignTrust == TrustPolicy("arn:aws:iam::222222222222:root")

IsConditionPolicy(doc) == doc.Statement[1].Condition # <<>>

----------------------------------------------------------------------------
(* The IAM account, restricted to the one role name the program uses.      *)
(* policies is the set of the role's inline policies, keyed by name.       *)

NoRole == [exists |-> FALSE, owner |-> "none", trust |-> <<>>, policies |-> {}]

PolicyNamesOf(r) == {p.name : p \in r.policies}

ForeignRoles ==
    { [exists |-> TRUE, owner |-> "other", trust |-> ForeignTrust, policies |-> ps] :
        ps \in { {},
                 {[name |-> "Other", doc |-> ForeignPolicy]},
                 {[name |-> EnumPolicyName, doc |-> InlinePolicy("old", <<"999999999999">>)]},
                 {[name |-> "Other", doc |-> ForeignPolicy],
                  [name |-> EnumPolicyName, doc |-> InlinePolicy("old", <<"999999999999">>)]} } }

(* cfg: the aws.Config the client of the call was built from *)
CallerCfg == "cfg"
EmptyCfg == "aws.Config{}"

CallWith(api, e, cfg) == [api |-> api, err |-> e, cfg |-> cfg]

(* a call through iam.NewFromConfig(cfg), cfg being the caller's *)
Call(api, e) == CallWith(api, e, CallerCfg)

(* Each service operation maps the role and a fault flag (the service      *)
(* fails for a reason of its own) to the role afterwards and the error.    *)

IamGetRole(r, fault) ==
    [role |-> r,
     err |-> IF fault THEN "ServiceFailure"
             ELSE IF ~r.exists THEN "NoSuchEntity" ELSE "nil"]

IamCreateRole(r, doc, fault) ==
    IF fault THEN [role |-> r, err |-> "ServiceFailure"]
    ELSE IF r.exists THEN [role |-> r, err |-> "EntityAlreadyExists"]
    ELSE [role |-> [exists |-> TRUE, owner |-> "run", trust |-> doc, policies |-> {}],
          err |-> "nil"]

IamListRolePolicies(r, fault) ==
    IF fault THEN [names |-> {}, err |-> "ServiceFailure"]
    ELSE IF ~r.exists THEN [names |-> {}, err |-> "NoSuchEntity"]
    ELSE [names |-> PolicyNamesOf(r), err |-> "nil"]

IamDeleteRolePolicy(r, name, fault) ==
    IF fault THEN [role |-> r, err |-> "ServiceFailure"]
    ELSE IF ~r.exists \/ name \notin PolicyNamesOf(r) THEN [role |-> r, err |-> "NoSuchEntity"]
    ELSE [role |-> [r EXCEPT !.policies = {p \in @ : p.name # name}], err |-> "nil"]

IamPutRolePolicy(r, name, doc, fault) ==
    IF fault THEN [role |-> r, err |-> "ServiceFailure"]
    ELSE IF ~r.exists THEN [role |-> r, err |-> "NoSuchEntity"]
    ELSE [role |-> [r EXCEPT !.policies = {p \in @ : p.name # name}
                                            \cup {[name |-> name, doc |-> doc]}],
          err |-> "nil"]

IamDeleteRole(r, fault) ==
    IF fault THEN [role |-> r, err |-> "ServiceFailure"]
    ELSE IF ~r.exists THEN [role |-> r, err |-> "NoSuchEntity"]
    ELSE IF r.policies # {} THEN [role |-> r, err |-> "DeleteConflict"]
    ELSE [role |-> NoRole, err |-> "nil"]

----------------------------------------------------------------------------
(* The role functions of package internal.  Each maps the role and the     *)
(* faults of the environment to the role afterwards, the returned error    *)
(* and the sequence of remote calls made.                                  *)

CreateS3Role(r, trustedUserArn, fault) ==
    LET res == IamCreateRole(r, TrustPolicy(trustedUserArn), fault)
    IN  [role |-> res.role,
         err |-> IF res.err # "nil" THEN Wrap("failed to create role", res.err) ELSE NilErr,
         calls |-> << Call("CreateRole", res.err) >>]

RECURSIVE SetToSeq(_)
SetToSeq(S) ==
    IF S = {} THEN <<>>
    ELSE LET x == CHOOSE y \in S : TRUE IN <<x>> \o SetToSeq(S \ {x})

DeletePolicies_None(r, names, failing) == [role |-> r, calls |-> <<>>]

(* the loop over policies.PolicyNames: the result of DeleteRolePolicy is dropped *)
RECURSIVE DeletePolicies(_, _, _)
DeletePolicies(r, names, failing) ==
    IF names = <<>> THEN [role |-> r, calls |-> <<>>]
    ELSE LET res == IamDeleteRolePolicy(r, Head(names), Head(names) \in failing)
             rest == DeletePolicies(res.role, Tail(names), failing)
         IN  [role |-> rest.role,
              calls |-> << Call("DeleteRolePolicy", res.err) >> \o rest.calls]

(* the error DeleteS3Role returns for the error of its DeleteRole call *)
DeleteRoleError(e) ==
    IF e # "nil" THEN Wrap("failed to delete role", e) ELSE NilErr

(* listFault: ListRolePolicies fails; failing: the policy names whose      *)
(* DeleteRolePolicy fails; roleFault: DeleteRole fails                     *)
DeleteS3Role(r, listFault, failing, roleFault) ==
    LET lst  == IamListRolePolicies(r, listFault)
        dels == IF lst.err = "nil"
                THEN DeletePolicies(r, SetToSeq(lst.names), failing)
                ELSE [role |-> r, calls |-> <<>>]
        res  == IamDeleteRole(dels.role, roleFault)
    IN  [role |-> res.role,
         err |-> DeleteRoleError(res.err),
         calls |-> << Call("ListRolePolicies", lst.err) >> \o dels.calls
                   \o << Call("DeleteRole", res.err) >>]

(* AttachS3EnumPolicy (src/internal/roles.go, package roles): its client   *)
(* is built from aws.Config{}, which has no region and no credentials, so  *)
(* the AttachRolePolicy request cannot be made and the call fails          *)
AttachS3EnumPolicy(r, policyArn) ==
    [role |-> r,
     err |-> Wrap("failed to attach policy to role", "MissingRegion"),
     calls |-> << CallWith("AttachRolePolicy", "MissingRegion", EmptyCfg) >>]

AttachInlinePolicy(r, bucketName, accountIds, fault) ==
    LET res == IamPutRolePolicy(r, AttachPolicyName(bucketName),
                                InlinePolicy(bucketName, accountIds), fault)
    IN  [role |-> res.role,
         err |-> IF res.err # "nil" THEN Wrap("failed to attach inline policy", res.err) ELSE NilErr,
         calls |-> << Call("PutRolePolicy", res.err) >>]

DetachInlinePolicy(r, fault) ==
    LET res == IamDeleteRolePolicy(r, EnumPolicyName, fault)
    IN  [role |-> res.role,
         err |-> IF res.err # "nil" THEN Wrap("failed to detach inline policy", res.err) ELSE NilErr,
         calls |-> << Call("DeleteRolePolicy", res.err) >>]

----------------------------------------------------------------------------
(* WithRetry and RateLimitedS3Client.ListObjectsV2WithRetry *)

Elapsed == {0, 60, 500}     \* time.Since(c.lastCall) in ms, as observed
ContentsLen == {0, 2}            \* len(resp.Contents) of a successful listing

NextLastErr_KeepFirst(old, e) == IF old = "nil" THEN e ELSE old

(* lastErr = err *)
NextLastErr(old, e) == e

ShouldReturn_Never(e) == FALSE

(* if !isRetryable(err) { return err } *)
ShouldReturn(e) == ~isRetryable(e)

MoreAttempts_Two(a) == a < 2

(* the for-loop condition of WithRetry *)
MoreAttempts(a) == a < maxRetries

(* the error returned after the loop *)
ExhaustedError(last) == Wrap("operation failed after 3 retries", last)

SpacingSleep_Always(isZero, elapsed) ==
    IF elapsed < rateLimitDelay THEN rateLimitDelay - elapsed ELSE 0

(* time.Sleep(c.rateLimit - elapsed) when the previous call is too recent *)
SpacingSleep(isZero, elapsed) ==
    IF ~isZero /\ elapsed < rateLimitDelay THEN rateLimitDelay - elapsed ELSE 0

NoSpacing == [first |-> TRUE, elapsed |-> 0, slept |-> 0, cancelled |-> FALSE]

(* entry of ListObjectsV2WithRetry: WithRetry starts with attempt = 0 *)
RetryStart ==
    /\ rpc' = "loop"
    /\ attempt' = 0
    /\ lastErr' = "nil"
    /\ errs' = <<>>
    /\ sleeps' = <<>>
    /\ result' = NilErr
    /\ resp' = -1
    /\ invocations' = invocations + 1

RetryReturn(err) ==
    /\ rpc' = "done"
    /\ result' = err

(* top of the loop body: no wait before the first attempt; before a retry  *)
(* the select returns ctx.Err() when the context is already cancelled      *)
RetryLoop ==
    /\ rpc = "loop"
    /\ IF attempt > 0
       THEN IF ctxDone
            THEN RetryReturn(Plain("ctxCanceled"))
            ELSE rpc' = "sleeping" /\ UNCHANGED result
       ELSE rpc' = "call" /\ UNCHANGED result
    /\ UNCHANGED <<attempt, lastErr, errs, sleeps, resp, ctxDone, invocations,
                   calls, hist, args, rets>>
    /\ UNCHANGED mainVars
    /\ UNCHANGED rateVars

RetryWake_NoSleep ==
    /\ rpc = "sleeping"
    /\ rpc' = "call"
    /\ UNCHANGED <<attempt, lastErr, errs, sleeps, result, resp, ctxDone,
                   invocations, calls, hist, args, rets>>
    /\ UNCHANGED mainVars
    /\ UNCHANGED rateVars

(* the select ends: by ctx.Done() if the context was cancelled during the  *)
(* wait, else by time.After(delay)                                         *)
RetryWake ==
    /\ rpc = "sleeping"
    /\ IF ctxDone
       THEN RetryReturn(Plain("ctxCanceled")) /\ UNCHANGED sleeps
       ELSE /\ sleeps' = Append(sleeps, BackoffDelay(attempt))
            /\ rpc' = "call"
            /\ UNCHANGED result
    /\ UNCHANGED <<attempt, lastErr, errs, resp, ctxDone, invocations, calls, hist, args, rets>>
    /\ UNCHANGED mainVars
    /\ UNCHANGED rateVars

(* fn(): the rate-limit sleep, the ListObjectsV2 call, and what WithRetry  *)
(* does with its error, up to the next loop test                           *)
RetryInvoke ==
    /\ rpc = "call"
    /\ \E elapsed \in Elapsed, outcome \in {"nil"} \cup S3Errors, n \in ContentsLen :
         LET sl == SpacingSleep(lastCallZero, elapsed)
             e  == IF ctxDone THEN "ctxCanceled" ELSE outcome
         IN  /\ spacing' = [first |-> lastCallZero, elapsed |-> elapsed, slept |-> sl,
                             cancelled |-> ctxDone]
             /\ lastCallZero' = FALSE
             /\ calls' = Append(calls, Call("ListObjectsV2", e))
             /\ errs' = Append(errs, e)
             /\ resp' = IF e = "nil" THEN n ELSE -1
             /\ IF e # "nil"
                THEN /\ lastErr' = NextLastErr(lastErr, e)
                     /\ IF ShouldReturn(e)
                        THEN RetryReturn(Plain(e)) /\ UNCHANGED attempt
                        ELSE /\ attempt' = attempt + 1
                             /\ IF MoreAttempts(attempt + 1)
                                THEN rpc' = "loop" /\ UNCHANGED result
                                ELSE RetryReturn(ExhaustedError(lastErr'))
                ELSE RetryReturn(NilErr) /\ UNCHANGED <<attempt, lastErr>>
    /\ UNCHANGED <<sleeps, ctxDone, invocations, hist, args, rets>>
    /\ UNCHANGED mainVars

----------------------------------------------------------------------------
(* main (src/s3accountfinder.go) *)

Paths == { <<>>, <<"b">>, <<"b", "/", "p">>, <<"/", "p">> }

(* strings.SplitN(path, "/", 2) *)
SplitN2(p) ==
    LET idx == {i \in 1..Len(p) : p[i] = "/"}
    IN  IF idx = {} THEN << p >>
        ELSE LET i == CHOOSE j \in idx : \A k \in idx : j <= k
             IN  << SubSeq(p, 1, i - 1), SubSeq(p, i + 1, Len(p)) >>

NoOutput == [listing |-> "none", warning |-> FALSE]

(* the exit status after the deferred closure: an error of DeleteS3Role is *)
(* logged and the status of the run is kept                                *)
AfterCleanup_ExitOnFailure(err, code) == IF ~IsNil(err) THEN 1 ELSE code

AfterCleanup(err, code) == code

(* os.Exit, log.Fatal and log.Fatalf end the process at once: deferred     *)
(* functions are not run                                                   *)
AfterFatal(d) == "exited"

(* a return from main runs the deferred functions first *)
AfterReturn(d) == IF d THEN "deferred" ELSE "exited"

Fatal ==
    /\ pc' = AfterFatal(deferred)
    /\ exitCode' = 1

AfterGetRole_NoFailFast(f, del) ==
    IF f /\ del THEN "delete_existing" ELSE "create_role"

(* the branch taken on the result of GetRole (lines 82-93) *)
AfterGetRole(f, del) ==
    IF f THEN (IF del THEN "delete_existing" ELSE "fatal") ELSE "create_role"

(* err == nil && roleInfo.Role != nil *)
RoleFound(r, e) == e = "nil" /\ r.exists

ParseFlags ==
    /\ pc = "start"
    /\ IF path = <<>>
       THEN pc' = AfterReturn(deferred) /\ exitCode' = 0
       ELSE pc' = "load_config" /\ UNCHANGED exitCode
    /\ UNCHANGED <<path, deleteFlag, role, role0, userArn, found, created,
                   deferred, cleanups, output, calls, ctxDone, invocations, hist, args, rets>>
    /\ UNCHANGED retryVars
    /\ UNCHANGED rateVars

LoadConfig ==
    /\ pc = "load_config"
    /\ \E ok \in BOOLEAN :
         IF ok THEN pc' = "get_caller_identity" /\ UNCHANGED exitCode
         ELSE Fatal
    /\ UNCHANGED <<path, deleteFlag, role, role0, userArn, found, created,
                   deferred, cleanups, output, calls, ctxDone, invocations, hist, args, rets>>
    /\ UNCHANGED retryVars
    /\ UNCHANGED rateVars

GetCallerIdentity ==
    /\ pc = "get_caller_identity"
    /\ \E ok \in BOOLEAN, arn \in CallerArns :
         /\ calls' = Append(calls, Call("GetCallerIdentity", IF ok THEN "nil" ELSE "ServiceFailure"))
         /\ IF ok
            THEN pc' = "get_role" /\ userArn' = arn /\ UNCHANGED exitCode
            ELSE Fatal /\ UNCHANGED userArn
    /\ UNCHANGED <<path, deleteFlag, role, role0, found, created,
                   deferred, cleanups, output, ctxDone, invocations, hist, args, rets>>
    /\ UNCHANGED retryVars
    /\ UNCHANGED rateVars

GetRole ==
    /\ pc = "get_role"
    /\ \E fault \in BOOLEAN :
         LET res == IamGetRole(role, fault)
             f   == RoleFound(res.role, res.err)
             nxt == AfterGetRole(f, deleteFlag)
         IN  /\ calls' = Append(calls, Call("GetRole", res.err))
             /\ found' = f
             /\ IF nxt = "fatal" THEN Fatal
                ELSE pc' = nxt /\ UNCHANGED exitCode
    /\ UNCHANGED <<path, deleteFlag, role, role0, userArn, created,
                   deferred, cleanups, output, ctxDone, invocations, hist, args, rets>>
    /\ UNCHANGED retryVars
    /\ UNCHANGED rateVars

DeleteExisting ==
    /\ pc = "delete_existing"
    /\ \E listFault \in BOOLEAN, failing \in SUBSET PolicyNamesOf(role), roleFault \in BOOLEAN :
         LET res == DeleteS3Role(role, listFault, failing, roleFault)
         IN  /\ role' = res.role
             /\ calls' = calls \o res.calls
             /\ IF ~IsNil(res.err) THEN Fatal
                ELSE pc' = "create_role" /\ UNCHANGED exitCode
    /\ UNCHANGED <<path, deleteFlag, role0, userArn, found, created,
                   deferred, cleanups, output, ctxDone, invocations, hist, args, rets>>
    /\ UNCHANGED retryVars
    /\ UNCHANGED rateVars

CreateRole_IgnoreError ==
    /\ pc = "create_role"
    /\ \E fault \in BOOLEAN :
         LET res == CreateS3Role(role, userArn, fault)
         IN  /\ role' = res.role
             /\ calls' = calls \o res.calls
             /\ created' = IsNil(res.err)
             /\ deferred' = TRUE
             /\ pc' = "assume_cfg"
             /\ UNCHANGED exitCode
    /\ UNCHANGED <<path, deleteFlag, role0, userArn, found,
                   cleanups, output, ctxDone, invocations, hist, args, rets>>
    /\ UNCHANGED retryVars
    /\ UNCHANGED rateVars

(* CreateS3Role and, on success, the defer statement that follows it *)
CreateRole ==
    /\ pc = "create_role"
    /\ \E fault \in BOOLEAN :
         LET res == CreateS3Role(role, userArn, fault)
         IN  /\ role' = res.role
             /\ calls' = calls \o res.calls
             /\ IF ~IsNil(res.err)
                THEN Fatal /\ UNCHANGED <<created, deferred>>
                ELSE /\ created' = TRUE
                     /\ deferred' = TRUE
                     /\ pc' = "assume_cfg"
                     /\ UNCHANGED exitCode
    /\ UNCHANGED <<path, deleteFlag, role0, userArn, found,
                   cleanups, output, ctxDone, invocations, hist, args, rets>>
    /\ UNCHANGED retryVars
    /\ UNCHANGED rateVars

(* config.LoadDefaultConfig with the assume-role credentials provider *)
AssumeCfg ==
    /\ pc = "assume_cfg"
    /\ \E ok \in BOOLEAN :
         IF ok THEN pc' = "parse_path" /\ UNCHANGED exitCode
         ELSE Fatal
    /\ UNCHANGED <<path, deleteFlag, role, role0, userArn, found, created,
                   deferred, cleanups, output, calls, ctxDone, invocations, hist, args, rets>>
    /\ UNCHANGED retryVars
    /\ UNCHANGED rateVars

(* lines 119-148: split the path, reject an empty bucket, build the        *)
(* rate-limited client and enter ListObjectsV2WithRetry                    *)
ParsePath ==
    /\ pc = "parse_path"
    /\ IF path = <<>> \/ SplitN2(path)[1] = <<>>
       THEN Fatal /\ UNCHANGED <<invocations, lastCallZero>> /\ UNCHANGED retryVars
       ELSE /\ pc' = "list"
            /\ lastCallZero' = TRUE
            /\ RetryStart
            /\ UNCHANGED exitCode
    /\ UNCHANGED <<path, deleteFlag, role, role0, userArn, found, created,
                   deferred, cleanups, output, calls, ctxDone, spacing, hist, args, rets>>

(* lines 149-163: ListObjectsV2WithRetry has returned *)
ListReturn ==
    /\ pc = "list"
    /\ rpc = "done"
    /\ IF ~IsNil(result)
       THEN Fatal /\ UNCHANGED output
       ELSE /\ output' = [output EXCEPT !.listing = IF resp = 0 THEN "empty" ELSE "objects"]
            /\ pc' = AfterReturn(deferred)
            /\ exitCode' = 0
    /\ UNCHANGED <<path, deleteFlag, role, role0, userArn, found, created,
                   deferred, cleanups, calls, ctxDone, invocations, hist, args, rets>>
    /\ UNCHANGED retryVars
    /\ UNCHANGED rateVars

(* the deferred closure (lines 101-106): an error of DeleteS3Role is logged *)
RunDeferred ==
    /\ pc = "deferred"
    /\ \E listFault \in BOOLEAN, failing \in SUBSET PolicyNamesOf(role), roleFault \in BOOLEAN :
         LET res == DeleteS3Role(role, listFault, failing, roleFault)
         IN  /\ role' = res.role
             /\ calls' = calls \o res.calls
             /\ output' = [output EXCEPT !.warning = ~IsNil(res.err)]
             /\ exitCode' = AfterCleanup(res.err, exitCode)
    /\ cleanups' = cleanups + 1
    /\ pc' = "exited"
    /\ UNCHANGED <<path, deleteFlag, role0, userArn, found, created,
                   deferred, ctxDone, invocations, hist, args, rets>>
    /\ UNCHANGED retryVars
    /\ UNCHANGED rateVars

Init ==
    /\ pc = "start"
    /\ exitCode = -1
    /\ path \in Paths
    /\ deleteFlag \in BOOLEAN
    /\ role \in {NoRole} \cup ForeignRoles
    /\ role0 = role
    /\ userArn = ""
    /\ found = FALSE
    /\ created = FALSE
    /\ deferred = FALSE
    /\ cleanups = 0
    /\ output = NoOutput
    /\ calls = <<>>
    /\ rpc = "idle"
    /\ attempt = 0
    /\ lastErr = "nil"
    /\ errs = <<>>
    /\ sleeps = <<>>
    /\ result = NilErr
    /\ resp = -1
    /\ ctxDone = FALSE
    /\ invocations = 0
    /\ lastCallZero = TRUE
    /\ spacing = NoSpacing
    /\ hist = <<>>
    /\ args = NoArgs
    /\ rets = NoRets

Next ==
    \/ ParseFlags
    \/ LoadConfig
    \/ GetCallerIdentity
    \/ GetRole
    \/ DeleteExisting
    \/ CreateRole
    \/ AssumeCfg
    \/ ParsePath
    \/ RetryLoop
    \/ RetryWake
    \/ RetryInvoke
    \/ ListReturn
    \/ RunDeferred

Spec == Init /\ [][Next]_vars

----------------------------------------------------------------------------
(* SpecRole: the role functions called in any order on the role name.      *)
(* hist records each call: the function, its arguments, the error it       *)
(* returned, whether the environment injected a fault, and the role        *)
(* before the call.                                                        *)

Buckets == {"b1", "b2"}
AccountIdLists == { <<"111111111111">>, <<"111111111111", "222222222222">> }

HistEntry(op, bucket, ids, res, faulty, before) ==
    [op |-> op, bucket |-> bucket, ids |-> ids, err |-> res.err,
     faulty |-> faulty, before |-> before, calls |-> res.calls]

RoleCallGuard ==
    /\ pc = "roles"
    /\ Len(hist) < MaxCalls

RoleCallFrame ==
    /\ UNCHANGED <<pc, exitCode, path, deleteFlag, role0, userArn, found, created,
                   deferred, cleanups, output, ctxDone, invocations, args, rets>>
    /\ UNCHANGED retryVars
    /\ UNCHANGED rateVars

CallCreateS3Role ==
    /\ RoleCallGuard
    /\ \E fault \in BOOLEAN :
         LET res == CreateS3Role(role, CallerArn, fault)
         IN  /\ role' = res.role
             /\ calls' = calls \o res.calls
             /\ hist' = Append(hist, HistEntry("CreateS3Role", "", <<>>, res, fault, role))
    /\ RoleCallFrame

CallDeleteS3Role ==
    /\ RoleCallGuard
    /\ \E listFault \in BOOLEAN, failing \in SUBSET PolicyNamesOf(role), roleFault \in BOOLEAN :
         LET res == DeleteS3Role(role, listFault, failing, roleFault)
         IN  /\ role' = res.role
             /\ calls' = calls \o res.calls
             /\ hist' = Append(hist, HistEntry("DeleteS3Role", "", <<>>, res,
                                               listFault \/ failing # {} \/ roleFault, role))
    /\ RoleCallFrame

CallAttachInlinePolicy ==
    /\ RoleCallGuard
    /\ \E bucket \in Buckets, ids \in AccountIdLists, fault \in BOOLEAN :
         LET res == AttachInlinePolicy(role, bucket, ids, fault)
         IN  /\ role' = res.role
             /\ calls' = calls \o res.calls
             /\ hist' = Append(hist, HistEntry("AttachInlinePolicy", bucket, ids, res, fault, role))
    /\ RoleCallFrame

ManagedPolicyArns == {"arn:aws:iam::aws:policy/AmazonS3ReadOnlyAccess"}

CallAttachS3EnumPolicy ==
    /\ RoleCallGuard
    /\ \E policyArn \in ManagedPolicyArns :
         LET res == AttachS3EnumPolicy(role, policyArn)
         IN  /\ role' = res.role
             /\ calls' = calls \o res.calls
             /\ hist' = Append(hist, HistEntry("AttachS3EnumPolicy", "", <<>>, res, FALSE, role))
    /\ RoleCallFrame

CallDetachInlinePolicy ==
    /\ RoleCallGuard
    /\ \E fault \in BOOLEAN :
         LET res == DetachInlinePolicy(role, fault)
         IN  /\ role' = res.role
             /\ calls' = calls \o res.calls
             /\ hist' = Append(hist, HistEntry("DetachInlinePolicy", "", <<>>, res, fault, role))
    /\ RoleCallFrame

InitRole ==
    /\ pc = "roles"
    /\ exitCode = -1
    /\ path = <<"b">>
    /\ deleteFlag = FALSE
    /\ role \in {NoRole} \cup ForeignRoles
    /\ role0 = role
    /\ userArn = CallerArn
    /\ found = FALSE
    /\ created = FALSE
    /\ deferred = FALSE
    /\ cleanups = 0
    /\ output = NoOutput
    /\ calls = <<>>
    /\ rpc = "idle"
    /\ attempt = 0
    /\ lastErr = "nil"
    /\ errs = <<>>
    /\ sleeps = <<>>
    /\ result = NilErr
    /\ resp = -1
    /\ ctxDone = FALSE
    /\ invocations = 0
    /\ lastCallZero = TRUE
    /\ spacing = NoSpacing
    /\ hist = <<>>
    /\ args = NoArgs
    /\ rets = NoRets

NextRole ==
    \/ CallCreateS3Role
    \/ CallDeleteS3Role
    \/ CallAttachInlinePolicy
    \/ CallDetachInlinePolicy
    \/ CallAttachS3EnumPolicy

SpecRole == InitRole /\ [][NextRole]_vars

----------------------------------------------------------------------------
(* SpecRetry: ListObjectsV2WithRetry called one invocation after another   *)
(* through one RateLimitedS3Client; the caller's context may be cancelled  *)
(* at any moment.                                                          *)

CallListObjectsV2WithRetry ==
    /\ pc = "client"
    /\ rpc \in {"idle", "done"}
    /\ invocations < MaxInvocations
    /\ RetryStart
    /\ UNCHANGED <<ctxDone, calls, hist, args, rets>>
    /\ UNCHANGED mainVars
    /\ UNCHANGED rateVars

CancelCtx ==
    /\ pc = "client"
    /\ ~ctxDone
    /\ ctxDone' = TRUE
    /\ UNCHANGED <<invocations, calls, hist, args, rets>>
    /\ UNCHANGED mainVars
    /\ UNCHANGED retryVars
    /\ UNCHANGED rateVars

InitRetry ==
    /\ pc = "client"
    /\ exitCode = -1
    /\ path = <<"b">>
    /\ deleteFlag = FALSE
    /\ role = NoRole
    /\ role0 = role
    /\ userArn = CallerArn
    /\ found = FALSE
    /\ created = FALSE
    /\ deferred = FALSE
    /\ cleanups = 0
    /\ output = NoOutput
    /\ calls = <<>>
    /\ rpc = "idle"
    /\ attempt = 0
    /\ lastErr = "nil"
    /\ errs = <<>>
    /\ sleeps = <<>>
    /\ result = NilErr
    /\ resp = -1
    /\ ctxDone = FALSE
    /\ invocations = 0
    /\ lastCallZero = TRUE
    /\ spacing = NoSpacing
    /\ hist = <<>>
    /\ args = NoArgs
    /\ rets = NoRets

NextRetry ==
    \/ CallListObjectsV2WithRetry
    \/ CancelCtx
    \/ RetryLoop
    \/ RetryWake
    \/ RetryInvoke

SpecRetry == InitRetry /\ [][NextRetry]_vars

----------------------------------------------------------------------------
(* SpecPure: contains and isRetryable applied to arguments drawn from      *)
(* bounded sets: strings over a two-letter alphabet, and the errors whose  *)
(* text ErrorText gives.                                                   *)

MaxStrLen == 3

Alphabet == {"a", "b"}
Strs == UNION { [1..n -> Alphabet] : n \in 0..MaxStrLen }

ErrIds == {"nil", "SlowDown", "Throttling", "AccessDenied", "ctxCanceled",
           "RequestTimeout", "ServiceUnavailable", "TooManyRequests",
           "RequestLimitExceeded", "RequestTimeTooSkewed",
           "ProvisionedThroughputExceededException", "NoSuchBucket",
           "Throttled", "slowdown"}

PureFrame ==
    /\ UNCHANGED <<calls, ctxDone, invocations, hist, args>>
    /\ UNCHANGED mainVars
    /\ UNCHANGED retryVars
    /\ UNCHANGED rateVars

ApplyContains ==
    /\ pc = "pure"
    /\ ~rets.cdone
    /\ rets' = [rets EXCEPT !.cdone = TRUE, !.contains = contains(args.s, args.substr)]
    /\ PureFrame

ApplyIsRetryable ==
    /\ pc = "pure"
    /\ ~rets.rdone
    /\ rets' = [rets EXCEPT !.rdone = TRUE, !.retryable = isRetryable(args.err)]
    /\ PureFrame

InitPure ==
    /\ pc = "pure"
    /\ exitCode = -1
    /\ path = <<"b">>
    /\ deleteFlag = FALSE
    /\ role = NoRole
    /\ role0 = role
    /\ userArn = CallerArn
    /\ found = FALSE
    /\ created = FALSE
    /\ deferred = FALSE
    /\ cleanups = 0
    /\ output = NoOutput
    /\ calls = <<>>
    /\ rpc = "idle"
    /\ attempt = 0
    /\ lastErr = "nil"
    /\ errs = <<>>
    /\ sleeps = <<>>
    /\ result = NilErr
    /\ resp = -1
    /\ ctxDone = FALSE
    /\ invocations = 0
    /\ lastCallZero = TRUE
    /\ spacing = NoSpacing
    /\ hist = <<>>
    /\ args \in [s : Strs, substr : Strs, err : ErrIds]
    /\ rets = NoRets

NextPure ==
    \/ ApplyContains
    \/ ApplyIsRetryable

SpecPure == InitPure /\ [][NextPure]_vars

----------------------------------------------------------------------------
(* Properties *)

Last(s) == s[Len(s)]

(* C1: once CreateS3Role has succeeded, DeleteS3Role is called for the     *)
(* role exactly once before the process ends, on every exit path (Spec).   *)
C1_TeardownOnEveryExit ==
    (pc = "exited" /\ created) => cleanups = 1

(* C2: after a run of main has terminated, no role created by that run     *)
(* (and so no inline policy of such a role) exists in the account (Spec).  *)
C2_NoRoleLeftBehind ==
    pc = "exited" => ~(role.exists /\ role.owner = "run")

(* C3: DeleteS3Role called twice in a row, the IAM service failing only    *)
(* for the reasons its semantics prescribe: the second call returns no     *)
(* error and afterwards the role and its inline policies are gone          *)
(* (SpecRole).                                                             *)
C3_DeleteTwiceSecondSucceeds ==
    \A i \in 2..Len(hist) :
        ( /\ hist[i - 1].op = "DeleteS3Role" /\ ~hist[i - 1].faulty /\ hist[i - 1].before.exists
          /\ hist[i].op = "DeleteS3Role" /\ ~hist[i].faulty )
        => /\ IsNil(hist[i].err)
           /\ i = Len(hist) => ~role.exists

(* C4: when GetRole reports the role and -delete-existing-role is not set, *)
(* main ends with a non-zero status having issued no call but              *)
(* GetCallerIdentity and GetRole, and the existing role is unchanged       *)
(* (Spec).                                                                 *)
C4_ConflictFailsFast ==
    (found /\ ~deleteFlag) =>
        /\ pc = "exited"
        /\ exitCode > 0
        /\ role = role0
        /\ \A i \in 1..Len(calls) : calls[i].api \in {"GetCallerIdentity", "GetRole"}
        /\ rpc = "idle"

C4_Witness ==
    /\ found /\ ~deleteFlag
    /\ pc = "exited"
    /\ role.exists /\ role.policies # {}
    /\ Len(calls) = 2

(* C5: when the role already exists and -delete-existing-role is set,      *)
(* every CreateRole call of the run comes after a DeleteRole call that     *)
(* succeeded on a role without inline policies, and there is at most one   *)
(* CreateRole call (Spec).                                                 *)
C5_ReplaceBeforeCreate ==
    (role0.exists /\ deleteFlag) =>
        /\ \A i \in 1..Len(calls) :
              calls[i].api = "CreateRole" =>
                  \E j \in 1..(i - 1) : calls[j].api = "DeleteRole" /\ calls[j].err = "nil"
        /\ Cardinality({i \in 1..Len(calls) : calls[i].api = "CreateRole"}) <= 1

(* C6: main is never about to issue CreateRole while a role of that name   *)
(* exists in the account (Spec).                                           *)
C6_NoCreateWhileExists ==
    pc = "create_role" => ~role.exists

(* C7: every ListObjectsV2 call is preceded, in the same run, by a         *)
(* successful PutRolePolicy of the condition policy that no successful     *)
(* DeleteRolePolicy has followed (Spec).                                   *)
C7_ProbePrecededByAttach ==
    \A i \in 1..Len(calls) :
        calls[i].api = "ListObjectsV2" =>
            \E j \in 1..(i - 1) :
                /\ calls[j].api = "PutRolePolicy" /\ calls[j].err = "nil"
                /\ \A k \in (j + 1)..(i - 1) :
                      ~(calls[k].api = "DeleteRolePolicy" /\ calls[k].err = "nil")

(* C8: after a successful AttachInlinePolicy, whatever calls came before,  *)
(* the role carries exactly one condition policy: it is named              *)
(* S3EnumerationPolicy and is the document built by that call (SpecRole).  *)
C8_SinglePolicySlot ==
    (Len(hist) > 0 /\ Last(hist).op = "AttachInlinePolicy" /\ IsNil(Last(hist).err)) =>
        /\ role.exists
        /\ {p \in role.policies : IsConditionPolicy(p.doc)}
             = { [name |-> "S3EnumerationPolicy",
                  doc |-> InlinePolicy(Last(hist).bucket, Last(hist).ids)] }

C8_Witness ==
    /\ Len(hist) >= 2
    /\ Last(hist).op = "AttachInlinePolicy" /\ IsNil(Last(hist).err)
    /\ hist[Len(hist) - 1].op = "AttachInlinePolicy" /\ IsNil(hist[Len(hist) - 1].err)
    /\ hist[Len(hist) - 1].bucket # Last(hist).bucket
    /\ hist[Len(hist) - 1].ids # Last(hist).ids

(* C9: DetachInlinePolicy on a role without S3EnumerationPolicy, the IAM   *)
(* service failing only for the reasons its semantics prescribe, returns   *)
(* no error and changes nothing (SpecRole).                                *)
C9_DetachIdempotent ==
    \A i \in 1..Len(hist) :
        ( /\ hist[i].op = "DetachInlinePolicy" /\ ~hist[i].faulty
          /\ hist[i].before.exists
          /\ "S3EnumerationPolicy" \notin PolicyNamesOf(hist[i].before) )
        => /\ IsNil(hist[i].err)
           /\ i = Len(hist) => role = hist[i].before

(* C10: WithRetry invokes the operation at most 3 times; when 3            *)
(* invocations failed with retryable errors it returns the                 *)
(* retries-exhausted error wrapping the error of the third (SpecRetry).    *)
C10_ThirdErrorWrapped ==
    /\ Len(errs) <= 3
    /\ ( /\ rpc = "done"
         /\ Len(errs) = 3
         /\ \A i \in 1..3 : isRetryable(errs[i]) )
       => result = [msg |-> "operation failed after 3 retries", cause |-> errs[3]]

C10_Witness ==
    /\ rpc = "done"
    /\ Len(errs) = 3
    /\ \A i \in 1..3 : isRetryable(errs[i])
    /\ errs[3] # errs[1] /\ errs[3] # errs[2]
    /\ ~ctxDone

(* C11: a failure classified non-retryable ends WithRetry at once,         *)
(* whichever attempt it is: it is the last invocation, WithRetry returns   *)
(* that same error unwrapped, and no backoff follows it (SpecRetry).       *)
C11_FatalReturnsAtOnce ==
    \A i \in 1..Len(errs) :
        (errs[i] # "nil" /\ ~isRetryable(errs[i])) =>
            /\ i = Len(errs)
            /\ rpc = "done"
            /\ result = [msg |-> "", cause |-> errs[i]]
            /\ Len(sleeps) = i - 1

C11_Witness ==
    /\ Len(errs) = 3
    /\ errs[3] = "AccessDenied"
    /\ isRetryable(errs[1]) /\ isRetryable(errs[2])
    /\ rpc = "done"

(* C12: the k-th backoff of a WithRetry call lasts min(1s * 2^(k-1), 30s); *)
(* nothing is slept before the first attempt; the delays are               *)
(* non-decreasing and at most 30s (SpecRetry, in ms).                      *)
C12_BackoffDelays ==
    /\ Len(errs) = 0 => sleeps = <<>>
    /\ Len(sleeps) <= Len(errs)
    /\ \A k \in 1..Len(sleeps) :
          /\ sleeps[k] = (IF 1000 * 2^(k - 1) < 30000 THEN 1000 * 2^(k - 1) ELSE 30000)
          /\ sleeps[k] <= 30000
          /\ k > 1 => sleeps[k - 1] <= sleeps[k]

C12_Witness ==
    /\ sleeps = <<1000, 2000>>
    /\ Len(errs) = 3

(* C13: retryable failures on attempts 1 and 2 and success on attempt 3:   *)
(* WithRetry returns nil after three invocations and exactly two backoff   *)
(* sleeps (SpecRetry).                                                     *)
C13_SucceedsOnThird ==
    ( /\ rpc = "done"
      /\ Len(errs) >= 2
      /\ isRetryable(errs[1]) /\ isRetryable(errs[2])
      /\ ~ctxDone )
    => /\ Len(errs) = 3
       /\ Len(sleeps) = 2
       /\ errs[3] = "nil" => (result.cause = "nil" /\ result.msg = "" /\ resp >= 0)

C13_Witness ==
    /\ rpc = "done"
    /\ errs = <<"Throttling", "Throttling", "nil">>
    /\ result.cause = "nil"
    /\ Len(sleeps) = 2

(* C14: once the context is cancelled no attempt is issued any more, the   *)
(* first included, and no rate-limit sleep is completed (SpecRetry).       *)
C14_NothingAfterCancel ==
    /\ \A i \in 1..Len(errs) : errs[i] # "ctxCanceled"
    /\ ~(spacing.cancelled /\ spacing.slept > 0)

(* C15: every S3 call but the client's first is issued at least 100ms      *)
(* after the previous one returned: when less has elapsed the client       *)
(* sleeps exactly the difference, else it does not sleep; the first call   *)
(* is never delayed (SpecRetry).                                           *)
C15_MinimumSpacing ==
    /\ spacing.first => spacing.slept = 0
    /\ ~spacing.first =>
          /\ spacing.elapsed + spacing.slept >= 100
          /\ spacing.elapsed < 100 => spacing.slept = 100 - spacing.elapsed
          /\ spacing.elapsed >= 100 => spacing.slept = 0

C15_Witness ==
    /\ ~spacing.first
    /\ spacing.elapsed = 60 /\ spacing.slept = 40
    /\ invocations = 2
    /\ Len(errs) = 2

(* C16: a run whose probe ended with access denied still performs its      *)
(* teardown and does not end through the fatal path (Spec).                *)
C16_DeniedIsNotFatal ==
    (pc = "exited" /\ Len(errs) > 0 /\ Last(errs) = "AccessDenied") =>
        /\ exitCode = 0
        /\ cleanups = 1

(* C17: when the listing succeeded and the cleanup DeleteS3Role fails, the *)
(* listing stays reported, the failure is logged as a warning and the exit *)
(* status stays 0 (Spec).                                                  *)
C17_CleanupFailureIsWarning ==
    (pc = "exited" /\ cleanups > 0 /\ Last(calls).api = "DeleteRole" /\ Last(calls).err # "nil") =>
        /\ exitCode = 0
        /\ output.listing \in {"empty", "objects"}
        /\ output.warning

C17_Witness ==
    /\ pc = "exited"
    /\ cleanups = 1
    /\ Last(calls).api = "DeleteRole" /\ Last(calls).err = "ServiceFailure"
    /\ output.listing = "objects"
    /\ role.exists

(* C18: a run given a path exits with status 0 exactly when its probe      *)
(* ended with a successful listing or with access denied (Spec).           *)
C18_ExitStatus ==
    (pc = "exited" /\ path # <<>>) =>
        (exitCode = 0 <=> (Len(errs) > 0 /\ Last(errs) \in {"nil", "AccessDenied"}))

(* C19: a retryable failure never ends WithRetry while attempts remain: a  *)
(* WithRetry call whose latest invocation failed retryably has returned    *)
(* only if the operation was invoked 3 times (SpecRetry).                  *)
C19_RetryableNeverLeaves ==
    (rpc = "done" /\ Len(errs) > 0 /\ isRetryable(Last(errs))) => Len(errs) = 3

(* C19 as amended: such a call has returned only after 3 invocations, with *)
(* the retries-exhausted error, or because the context was cancelled       *)
(* before the backoff wait ended, with ctx.Err(); an error caused by a     *)
(* retryable failure is returned only after 3 invocations.                 *)
C19_RetryableLeavesOnlyByCancel ==
    /\ (rpc = "done" /\ Len(errs) > 0 /\ isRetryable(Last(errs))) =>
          \/ /\ Len(errs) = 3
             /\ result = [msg |-> "operation failed after 3 retries", cause |-> errs[3]]
          \/ /\ Len(errs) < 3
             /\ ctxDone
             /\ result = [msg |-> "", cause |-> "ctxCanceled"]
    /\ (rpc = "done" /\ isRetryable(result.cause)) => Len(errs) = 3

C19_Witness ==
    /\ rpc = "done"
    /\ Len(errs) = 2
    /\ isRetryable(errs[2])
    /\ result.cause = "ctxCanceled"

(* C20: the probes of a run are made one after another, each under a       *)
(* condition policy attached for it, and none follows a granted one        *)
(* (Spec).                                                                 *)
C20_ProbesInOrderUnderOwnPolicy ==
    /\ \A i \in 1..Len(calls) : \A j \in (i + 1)..Len(calls) :
          (calls[i].api = "ListObjectsV2" /\ calls[i].err = "nil")
              => calls[j].api # "ListObjectsV2"
    /\ invocations <= Cardinality({i \in 1..Len(calls) :
                                     calls[i].api = "PutRolePolicy" /\ calls[i].err = "nil"})

(* C21: every IAM call a role function makes goes through a client built   *)
(* from the configuration the caller passed (SpecRole).                    *)
C21_OneConfiguration ==
    \A i \in 1..Len(calls) : calls[i].cfg = "cfg"

(* the place of a call in the order of a run: the identity and role        *)
(* look-ups, the deletion of an existing role, the creation, the listing,  *)
(* the cleanup; inside a deletion the listing of the policies, their       *)
(* removal, the removal of the role                                        *)
C22_Step(api) ==
    CASE api = "ListRolePolicies" -> 1
      [] api = "DeleteRolePolicy" -> 2
      [] api = "DeleteRole"       -> 3
      [] OTHER                    -> 0

C22_Rank(i) ==
    LET api == calls[i].api
        afterCreate == \E k \in 1..(i - 1) : calls[k].api = "CreateRole"
    IN  CASE api = "GetCallerIdentity" -> 10
          [] api = "GetRole"           -> 20
          [] api = "CreateRole"        -> 40
          [] api = "ListObjectsV2"     -> 50
          [] api \in {"ListRolePolicies", "DeleteRolePolicy", "DeleteRole"}
                                       -> (IF afterCreate THEN 60 ELSE 30) + C22_Step(api)
          [] OTHER                     -> 45

(* C22: the remote calls of a run come in the order GetCallerIdentity,     *)
(* GetRole, deletion of an existing role, CreateRole, S3 list attempts,    *)
(* cleanup; an S3 list call needs a successful CreateRole of the run, and  *)
(* after the cleanup has begun there is no S3 call, creation or            *)
(* attachment (Spec).                                                      *)
C22_CallOrder ==
    /\ \A i \in 1..Len(calls) : \A j \in (i + 1)..Len(calls) :
          /\ C22_Rank(i) <= C22_Rank(j)
          /\ C22_Rank(i) = C22_Rank(j) => calls[i].api \in {"ListObjectsV2", "DeleteRolePolicy"}
    /\ \A i \in 1..Len(calls) :
          calls[i].api = "ListObjectsV2" =>
              \E k \in 1..(i - 1) : calls[k].api = "CreateRole" /\ calls[k].err = "nil"
    /\ cleanups > 0 =>
          /\ Last(calls).api = "DeleteRole"
          /\ \E k \in 1..Len(calls) : calls[k].api = "ListObjectsV2" /\ calls[k].err = "nil"

C22_Witness ==
    /\ pc = "exited"
    /\ cleanups = 1
    /\ role0.policies # {}
    /\ Cardinality({i \in 1..Len(calls) : calls[i].api = "DeleteRole"}) = 2
    /\ Cardinality({i \in 1..Len(calls) : calls[i].api = "ListObjectsV2"}) = 3

(* C23: each DeleteS3Role call lists the policies, attempts                *)
(* DeleteRolePolicy once for every name the listing returned (none when    *)
(* the listing failed), then issues DeleteRole in every case; it returns   *)
(* an error exactly when DeleteRole failed (SpecRole).                     *)
C23_DeleteRoleAlwaysLast ==
    \A i \in 1..Len(hist) :
        hist[i].op = "DeleteS3Role" =>
            LET c == hist[i].calls
                n == Len(c)
                listed == IF c[1].err = "nil"
                          THEN Cardinality(PolicyNamesOf(hist[i].before)) ELSE 0
            IN  /\ n = listed + 2
                /\ c[1].api = "ListRolePolicies"
                /\ \A k \in 2..(n - 1) : c[k].api = "DeleteRolePolicy"
                /\ c[n].api = "DeleteRole"
                /\ (hist[i].err.cause = "nil") <=> (c[n].err = "nil")
                /\ hist[i].err.cause = c[n].err

C23_Witness ==
    \E i \in 1..Len(hist) : \E j \in 1..Len(hist) :
        /\ hist[i].op = "DeleteS3Role"
        /\ Len(hist[i].calls) = 4
        /\ hist[i].calls[2].err = "ServiceFailure"
        /\ hist[i].calls[4].err = "DeleteConflict"
        /\ hist[j].op = "DeleteS3Role"
        /\ hist[j].before.policies # {}
        /\ hist[j].calls[1].err = "ServiceFailure"
        /\ Len(hist[j].calls) = 2

(* C24: the trust policy of a role created by the run has one statement:   *)
(* Allow sts:AssumeRole to the one principal GetCallerIdentity returned    *)
(* to this run (Spec).                                                     *)
C24_TrustsOnlyCreator ==
    (role.exists /\ role.owner = "run") =>
        /\ userArn \in CallerArns
        /\ calls[1] = [api |-> "GetCallerIdentity", err |-> "nil", cfg |-> "cfg"]
        /\ Len(role.trust.Statement) = 1
        /\ role.trust.Statement[1].Effect = "Allow"
        /\ role.trust.Statement[1].Action = <<"sts:AssumeRole">>
        /\ role.trust.Statement[1].Principal = <<"AWS", userArn>>

C24_Witness ==
    /\ role.exists /\ role.owner = "run"
    /\ userArn = "arn:aws:sts::111111111111:assumed-role/ci/run"
    /\ role0.exists
    /\ pc = "exited"

(* sub occurs in s as a contiguous substring *)
C25_Occurs(sub, s) ==
    \E i \in 0..(Len(s) - Len(sub)) : \A k \in 1..Len(sub) : s[i + k] = sub[k]

(* C25: contains(s, substr) is true exactly when substr occurs in s (the   *)
(* empty substr always does), and isRetryable(err) exactly when err is not *)
(* nil and its message holds one of the eight tokens (SpecPure).           *)
C25_ContainsIsSubstring ==
    /\ rets.cdone => (rets.contains <=> C25_Occurs(args.substr, args.s))
    /\ (rets.cdone /\ args.substr = <<>>) => rets.contains
    /\ rets.rdone =>
          (rets.retryable <=>
              /\ args.err # "nil"
              /\ \E tok \in {tokRequestTimeout, tokServiceUnavailable, tokThrottling,
                             tokTooManyRequests, tokRequestLimitExceeded, tokSlowDown,
                             tokRequestTimeTooSkewed,
                             tokProvisionedThroughputExceededException} :
                    C25_Occurs(tok, ErrorText(args.err)))

C25_Witness ==
    /\ rets.cdone /\ rets.contains
    /\ args.s = <<"a", "b", "a">> /\ args.substr = <<"b", "a">>
    /\ rets.rdone /\ rets.retryable
    /\ args.err = "RequestTimeTooSkewed"
====
